---- MODULE Spec2Model ----
(***************************************************************************)
(* glasscast (src/main.rs): a point light casts 360 rays through a 2D      *)
(* scene of wall segments; every ray is marched outward in fixed steps,    *)
(* attenuated by the walls it samples, and plotted until it leaves the     *)
(* window.                                                                 *)
(*                                                                         *)
(* Numbers.  The program computes in f32.  Pixel-space coordinates are     *)
(* held here in fixed point, Scale units to the pixel, and the normalised  *)
(* light position in PosDen units to 1.0.  Every light position of the     *)
(* model (0, 1/2, 1, -1) and its product with the window size is exact in  *)
(* f32 as well.  Wall end points are whole pixels.  The ray normals are    *)
(* the f32 values of cos and sin rounded to 1/Scale.                       *)
(***************************************************************************)
EXTENDS Integers, Sequences, FiniteSets, TLC

VARIABLES
    world,                \* World: walls and light (main.rs:65-68)
    last_light_position,  \* main.rs:202
    pc,                   \* position of main's render loop
    frames,               \* iterations of the render loop completed
    angle,                \* loop variable of the sweep (main.rs:231)
    normal,               \* the ray normal of the current angle
    magnitude,            \* trace_and_plot's magnitude (main.rs:157)
    color,                \* trace_and_plot's carried color (main.rs:158)
    sink,                 \* the render texture written by draw_pixel_v
    last,                 \* history: the latest call of plot on this ray
    emitted,              \* history: magnitudes plotted on this ray
    applied,              \* history: walls whose color modified this ray
    calls,                \* history: trace_and_plot calls of this sweep
    swept,                \* history: did this frame run the sweep
    rendered_from         \* history: light position of the latest sweep

vars == <<world, last_light_position, pc, frames, angle, normal, magnitude,
          color, sink, last, emitted, applied, calls, swept, rendered_from>>

---------------------------------------------------------------------------
(* Bounds and program constants *)

Scale == 100
PosDen == 2
WindowWidth == 8
WindowHeight == 6
MaxFrames == 2
NumAngles == 360
StepSize == 2
U8_MIN == 0
U8_MAX == 255

---------------------------------------------------------------------------
(* raylib's Vector2 and Color *)

Vec(x, y) == [x |-> x, y |-> y]
Rgba(r, g, b, a) == [r |-> r, g |-> g, b |-> b, a |-> a]

BLACK == Rgba(0, 0, 0, 255)
WHITE == Rgba(255, 255, 255, 255)

\* the window size as a vector, in pixel fixed point
WindowVec == Vec(WindowWidth * Scale, WindowHeight * Scale)

\* mouse_pos / window_vec: pixel fixed point to a normalised position
Normalize(v, window_vec) ==
    Vec((v.x * PosDen * Scale) \div window_vec.x,
        (v.y * PosDen * Scale) \div window_vec.y)

\* position * window_vec: a normalised position to pixel fixed point
ToPixels(position, window_vec) ==
    Vec((position.x * window_vec.x) \div PosDen,
        (position.y * window_vec.y) \div PosDen)

\* angle.to_radians().cos() and .sin() in f32, rounded to 1/Scale
CosTable ==
<<
     100,  100,  100,  100,  100,  100,   99,   99,   99,   99,   98,   98,   98,   97,   97,
      97,   96,   96,   95,   95,   94,   93,   93,   92,   91,   91,   90,   89,   88,   87,
      87,   86,   85,   84,   83,   82,   81,   80,   79,   78,   77,   75,   74,   73,   72,
      71,   69,   68,   67,   66,   64,   63,   62,   60,   59,   57,   56,   54,   53,   52,
      50,   48,   47,   45,   44,   42,   41,   39,   37,   36,   34,   33,   31,   29,   28,
      26,   24,   22,   21,   19,   17,   16,   14,   12,   10,    9,    7,    5,    3,    2,
       0,   -2,   -3,   -5,   -7,   -9,  -10,  -12,  -14,  -16,  -17,  -19,  -21,  -22,  -24,
     -26,  -28,  -29,  -31,  -33,  -34,  -36,  -37,  -39,  -41,  -42,  -44,  -45,  -47,  -48,
     -50,  -52,  -53,  -54,  -56,  -57,  -59,  -60,  -62,  -63,  -64,  -66,  -67,  -68,  -69,
     -71,  -72,  -73,  -74,  -75,  -77,  -78,  -79,  -80,  -81,  -82,  -83,  -84,  -85,  -86,
     -87,  -87,  -88,  -89,  -90,  -91,  -91,  -92,  -93,  -93,  -94,  -95,  -95,  -96,  -96,
     -97,  -97,  -97,  -98,  -98,  -98,  -99,  -99,  -99,  -99, -100, -100, -100, -100, -100,
    -100, -100, -100, -100, -100, -100,  -99,  -99,  -99,  -99,  -98,  -98,  -98,  -97,  -97,
     -97,  -96,  -96,  -95,  -95,  -94,  -93,  -93,  -92,  -91,  -91,  -90,  -89,  -88,  -87,
     -87,  -86,  -85,  -84,  -83,  -82,  -81,  -80,  -79,  -78,  -77,  -75,  -74,  -73,  -72,
     -71,  -69,  -68,  -67,  -66,  -64,  -63,  -62,  -60,  -59,  -57,  -56,  -54,  -53,  -52,
     -50,  -48,  -47,  -45,  -44,  -42,  -41,  -39,  -37,  -36,  -34,  -33,  -31,  -29,  -28,
     -26,  -24,  -22,  -21,  -19,  -17,  -16,  -14,  -12,  -10,   -9,   -7,   -5,   -3,   -2,
       0,    2,    3,    5,    7,    9,   10,   12,   14,   16,   17,   19,   21,   22,   24,
      26,   28,   29,   31,   33,   34,   36,   37,   39,   41,   42,   44,   45,   47,   48,
      50,   52,   53,   54,   56,   57,   59,   60,   62,   63,   64,   66,   67,   68,   69,
      71,   72,   73,   74,   75,   77,   78,   79,   80,   81,   82,   83,   84,   85,   86,
      87,   87,   88,   89,   90,   91,   91,   92,   93,   93,   94,   95,   95,   96,   96,
      97,   97,   97,   98,   98,   98,   99,   99,   99,   99,  100,  100,  100,  100,  100 >>

SinTable ==
<<
       0,    2,    3,    5,    7,    9,   10,   12,   14,   16,   17,   19,   21,   22,   24,
      26,   28,   29,   31,   33,   34,   36,   37,   39,   41,   42,   44,   45,   47,   48,
      50,   52,   53,   54,   56,   57,   59,   60,   62,   63,   64,   66,   67,   68,   69,
      71,   72,   73,   74,   75,   77,   78,   79,   80,   81,   82,   83,   84,   85,   86,
      87,   87,   88,   89,   90,   91,   91,   92,   93,   93,   94,   95,   95,   96,   96,
      97,   97,   97,   98,   98,   98,   99,   99,   99,   99,  100,  100,  100,  100,  100,
     100,  100,  100,  100,  100,  100,   99,   99,   99,   99,   98,   98,   98,   97,   97,
      97,   96,   96,   95,   95,   94,   93,   93,   92,   91,   91,   90,   89,   88,   87,
      87,   86,   85,   84,   83,   82,   81,   80,   79,   78,   77,   75,   74,   73,   72,
      71,   69,   68,   67,   66,   64,   63,   62,   60,   59,   57,   56,   54,   53,   52,
      50,   48,   47,   45,   44,   42,   41,   39,   37,   36,   34,   33,   31,   29,   28,
      26,   24,   22,   21,   19,   17,   16,   14,   12,   10,    9,    7,    5,    3,    2,
       0,   -2,   -3,   -5,   -7,   -9,  -10,  -12,  -14,  -16,  -17,  -19,  -21,  -22,  -24,
     -26,  -28,  -29,  -31,  -33,  -34,  -36,  -37,  -39,  -41,  -42,  -44,  -45,  -47,  -48,
     -50,  -52,  -53,  -54,  -56,  -57,  -59,  -60,  -62,  -63,  -64,  -66,  -67,  -68,  -69,
     -71,  -72,  -73,  -74,  -75,  -77,  -78,  -79,  -80,  -81,  -82,  -83,  -84,  -85,  -86,
     -87,  -87,  -88,  -89,  -90,  -91,  -91,  -92,  -93,  -93,  -94,  -95,  -95,  -96,  -96,
     -97,  -97,  -97,  -98,  -98,  -98,  -99,  -99,  -99,  -99, -100, -100, -100, -100, -100,
    -100, -100, -100, -100, -100, -100,  -99,  -99,  -99,  -99,  -98,  -98,  -98,  -97,  -97,
     -97,  -96,  -96,  -95,  -95,  -94,  -93,  -93,  -92,  -91,  -91,  -90,  -89,  -88,  -87,
     -87,  -86,  -85,  -84,  -83,  -82,  -81,  -80,  -79,  -78,  -77,  -75,  -74,  -73,  -72,
     -71,  -69,  -68,  -67,  -66,  -64,  -63,  -62,  -60,  -59,  -57,  -56,  -54,  -53,  -52,
     -50,  -48,  -47,  -45,  -44,  -42,  -41,  -39,  -37,  -36,  -34,  -33,  -31,  -29,  -28,
     -26,  -24,  -22,  -21,  -19,  -17,  -16,  -14,  -12,  -10,   -9,   -7,   -5,   -3,   -2 >>

RayNormal(a) == Vec(CosTable[a + 1], SinTable[a + 1])

---------------------------------------------------------------------------
(* The scenes *)

Wall(sx, sy, ex, ey, c) == [start |-> Vec(sx, sy), end |-> Vec(ex, ey), color |-> c]

Walls0 == << >>
Walls1 == << Wall(5, -5, 5, 5, Rgba(100, 0, 0, 255)) >>
Walls2 == << Wall(4, -5, 4, 5, Rgba(100, 0, 0, 255)),
             Wall(0, 2, 8, 2, Rgba(0, 200, 60, 255)) >>
WallSets == {Walls0, Walls1, Walls2}

LightColors == {WHITE, Rgba(50, 150, 255, 128)}

\* (-1.0, -1.0), (0, 0), (0.5, 0.5) and (1.0, 1.0)
LightPositions ==
    {Vec(-PosDen, -PosDen), Vec(0, 0), Vec(PosDen \div 2, PosDen \div 2), Vec(PosDen, PosDen)}

MousePositions ==
    {Vec(0, 0), Vec(WindowVec.x \div 2, WindowVec.y \div 2)}

---------------------------------------------------------------------------
(* geo's Line::euclidean_distance(&Point) < 1.0 *)

Sq(n) == n * n

\* squared distance of two points, the second in whole pixels
Dist2(p, q) == Sq(p.x - q.x * Scale) + Sq(p.y - q.y * Scale)

find_intersect(wall, point) ==
    LET dx == wall.end.x - wall.start.x
        dy == wall.end.y - wall.start.y
        len2 == Sq(dx) + Sq(dy)
        dot == (point.x - wall.start.x * Scale) * dx
               + (point.y - wall.start.y * Scale) * dy
        cross == (wall.start.y * Scale - point.y) * dx
                 - (wall.start.x * Scale - point.x) * dy
    IN  IF len2 = 0 THEN Dist2(point, wall.start) < Sq(Scale)
        ELSE IF dot <= 0 THEN Dist2(point, wall.start) < Sq(Scale)
        ELSE IF dot >= Scale * len2 THEN Dist2(point, wall.end) < Sq(Scale)
        ELSE Sq(cross) < Sq(Scale) * len2

RECURSIVE last_hit(_, _, _)
last_hit(walls, pixel, i) ==
    IF i > Len(walls) THEN 0
    ELSE IF last_hit(walls, pixel, i + 1) # 0 THEN last_hit(walls, pixel, i + 1)
    ELSE IF find_intersect(walls[i], pixel) THEN i
    ELSE 0

\* index of the wall whose color the loop of main.rs:99-104 returns, 0 for none
RECURSIVE first_hit(_, _, _)
first_hit(walls, pixel, i) ==
    IF i > Len(walls) THEN 0
    ELSE IF find_intersect(walls[i], pixel) THEN i
    ELSE first_hit(walls, pixel, i + 1)

get_wall_of_pixel(pixel, w) == first_hit(w.walls, pixel, 1)

get_color_modifier_of_pixel(pixel, w) ==
    LET i == get_wall_of_pixel(pixel, w)
    IN  IF i = 0 THEN BLACK ELSE w.walls[i].color

---------------------------------------------------------------------------
(* plot *)

pixel_of(position, n, m, window_vec) ==
    LET origin == ToPixels(position, window_vec)
    IN  Vec(n.x * m + origin.x, n.y * m + origin.y)

out_of_window_exclusive(pixel, window_vec) ==
    (pixel.x < 0 \/ pixel.x >= window_vec.x) \/ (pixel.y < 0 \/ pixel.y >= window_vec.y)

out_of_window(pixel, window_vec) ==
    (pixel.x < 0 \/ pixel.x > window_vec.x) \/ (pixel.y < 0 \/ pixel.y > window_vec.y)

clamp(v, lo, hi) == IF v < lo THEN lo ELSE IF v > hi THEN hi ELSE v

channel_wrapping(ray, modifier) == (ray - modifier) % (U8_MAX + 1)

channel(ray, modifier) == clamp(ray - modifier, U8_MIN, U8_MAX)

modify(ray_color, modifier) ==
    Rgba(channel(ray_color.r, modifier.r),
         channel(ray_color.g, modifier.g),
         channel(ray_color.b, modifier.b),
         255)

\* Option<Color>, with the pixel and the modifier of the call
plot(position, n, m, window_vec, ray_color, w) ==
    LET pixel == pixel_of(position, n, m, window_vec)
        modifier == get_color_modifier_of_pixel(pixel, w)
    IN  IF out_of_window(pixel, window_vec)
        THEN [some |-> FALSE, pixel |-> pixel, before |-> ray_color,
              modifier |-> BLACK, color |-> ray_color]
        ELSE [some |-> TRUE, pixel |-> pixel, before |-> ray_color,
              modifier |-> modifier, color |-> modify(ray_color, modifier)]

\* the texture: WindowWidth x WindowHeight pixels
Surface == (0 .. WindowWidth - 1) \X (0 .. WindowHeight - 1)

PixelIndex(pixel) == <<pixel.x \div Scale, pixel.y \div Scale>>

\* d.draw_pixel_v: points outside the texture are clipped
draw_pixel_v(s, pixel, c) ==
    IF PixelIndex(pixel) \in Surface
    THEN [s EXCEPT ![PixelIndex(pixel)] = c]
    ELSE s

clear_background(c) == [p \in Surface |-> c]

NoPlot == [some |-> FALSE, pixel |-> Vec(0, 0), before |-> BLACK,
           modifier |-> BLACK, color |-> BLACK]

---------------------------------------------------------------------------
(* main *)

Init ==
    /\ world \in [walls : WallSets,
                  light : [fixed : BOOLEAN, color : LightColors,
                           position : LightPositions]]
    /\ last_light_position = Vec(-PosDen, -PosDen)
    /\ pc = "frame"
    /\ frames = 0
    /\ angle = 0
    /\ normal = Vec(0, 0)
    /\ magnitude = 0
    /\ color = BLACK
    /\ sink = clear_background(BLACK)
    /\ last = NoPlot
    /\ emitted = {}
    /\ applied = {}
    /\ calls = 0
    /\ swept = FALSE
    /\ rendered_from = << >>

\* main.rs:204-228: light controls, then the decision to render
BeginFrame ==
    /\ pc = "frame"
    /\ frames < MaxFrames
    /\ \E mouse_pos \in MousePositions :
         LET position == IF ~world.light.fixed
                         THEN Normalize(mouse_pos, WindowVec)
                         ELSE world.light.position
         IN  /\ world' = [world EXCEPT !.light.position = position]
             /\ IF position # last_light_position
                THEN /\ sink' = clear_background(WHITE)
                     /\ angle' = 0
                     /\ calls' = 0
                     /\ swept' = TRUE
                     /\ rendered_from' = <<position>>
                     /\ pc' = "sweep"
                ELSE /\ swept' = FALSE
                     /\ pc' = "present"
                     /\ UNCHANGED <<sink, angle, calls, rendered_from>>
    /\ UNCHANGED <<last_light_position, frames, normal, magnitude, color, last,
                   emitted, applied>>

trace_and_plot_entry_skip(ray_color) == [magnitude |-> StepSize, color |-> ray_color]

\* main.rs:157-158
trace_and_plot_entry(ray_color) == [magnitude |-> 0, color |-> ray_color]

\* main.rs:231-248: the next angle's normal and the call of trace_and_plot
StartRay ==
    /\ pc = "sweep"
    /\ angle < NumAngles
    /\ normal' = RayNormal(angle)
    /\ magnitude' = trace_and_plot_entry(world.light.color).magnitude
    /\ color' = trace_and_plot_entry(world.light.color).color
    /\ last' = NoPlot
    /\ emitted' = {}
    /\ applied' = {}
    /\ calls' = calls + 1
    /\ pc' = "trace"
    /\ UNCHANGED <<world, last_light_position, frames, angle, sink, swept,
                   rendered_from>>

carry_stale(ray_color, new_color) == ray_color

\* main.rs:168
carry(ray_color, new_color) == new_color

advance_stuck(m) == m

\* main.rs:161
advance(m) == m + StepSize

\* main.rs:160-168: one iteration of trace_and_plot's loop
Step ==
    /\ pc = "trace"
    /\ \E new_color \in {plot(world.light.position, normal, magnitude, WindowVec,
                              color, world)} :
         /\ last' = new_color
         /\ magnitude' = advance(magnitude)
         /\ IF ~new_color.some
            THEN /\ pc' = "returned"
                 /\ UNCHANGED <<color, sink, emitted, applied>>
            ELSE /\ sink' = draw_pixel_v(sink, new_color.pixel, new_color.color)
                 /\ color' = carry(color, new_color.color)
                 /\ emitted' = emitted \cup {magnitude}
                 /\ applied' = applied \cup
                                 ({get_wall_of_pixel(new_color.pixel, world)} \ {0})
                 /\ pc' = "trace"
    /\ UNCHANGED <<world, last_light_position, frames, angle, normal, calls,
                   swept, rendered_from>>

\* main.rs:231: the for loop's advance
NextAngle ==
    /\ pc = "returned"
    /\ angle' = angle + 1
    /\ pc' = "sweep"
    /\ UNCHANGED <<world, last_light_position, frames, normal, magnitude, color,
                   sink, last, emitted, applied, calls, swept, rendered_from>>

\* main.rs:251-253
EndSweep ==
    /\ pc = "sweep"
    /\ angle = NumAngles
    /\ pc' = "present"
    /\ UNCHANGED <<world, last_light_position, frames, angle, normal, magnitude,
                   color, sink, last, emitted, applied, calls, swept,
                   rendered_from>>

\* main.rs:255-276
EndFrame ==
    /\ pc = "present"
    /\ last_light_position' = world.light.position
    /\ frames' = frames + 1
    /\ pc' = "frame"
    /\ UNCHANGED <<world, angle, normal, magnitude, color, sink, last, emitted,
                   applied, calls, swept, rendered_from>>

\* main.rs:204: rl.window_should_close()
Close ==
    /\ pc = "frame"
    /\ pc' = "closed"
    /\ UNCHANGED <<world, last_light_position, frames, angle, normal, magnitude,
                   color, sink, last, emitted, applied, calls, swept,
                   rendered_from>>

Next ==
    \/ BeginFrame
    \/ StartRay
    \/ Step
    \/ NextAngle
    \/ EndSweep
    \/ EndFrame
    \/ Close

Spec == Init /\ [][Next]_vars

\* trace_and_plot alone: called with any scene, light and angle of the sweep;
\* the loop runs in one thread, and every iteration that can run does
TraceInit ==
    /\ world \in [walls : WallSets,
                  light : [fixed : {TRUE}, color : LightColors,
                           position : LightPositions]]
    /\ last_light_position = Vec(-PosDen, -PosDen)
    /\ pc = "trace"
    /\ frames = 0
    /\ angle \in 0 .. NumAngles - 1
    /\ normal = RayNormal(angle)
    /\ magnitude = trace_and_plot_entry(world.light.color).magnitude
    /\ color = trace_and_plot_entry(world.light.color).color
    /\ sink = clear_background(WHITE)
    /\ last = NoPlot
    /\ emitted = {}
    /\ applied = {}
    /\ calls = angle + 1
    /\ swept = TRUE
    /\ rendered_from = <<world.light.position>>

TraceNext == Step

TraceSpec == TraceInit /\ [][TraceNext]_vars /\ WF_vars(Step)

---------------------------------------------------------------------------
(* Properties *)

Max(a, b) == IF a > b THEN a ELSE b
Abs(n) == IF n < 0 THEN -n ELSE n
Sign(n) == IF n < 0 THEN -1 ELSE IF n > 0 THEN 1 ELSE 0
SameRgb(c, d) == c.r = d.r /\ c.g = d.g /\ c.b = d.b

\* the sample of the current ray at magnitude m
SampleAt(m) ==
    Vec(ToPixels(world.light.position, WindowVec).x + normal.x * m,
        ToPixels(world.light.position, WindowVec).y + normal.y * m)

\* within [0,width] x [0,height]
InWindow(p) ==
    /\ 0 <= p.x /\ p.x <= WindowWidth * Scale
    /\ 0 <= p.y /\ p.y <= WindowHeight * Scale

\* the magnitudes 0, StepSize, 2*StepSize, ... below m
Marks(m) == {k \in 0 .. (m - 1) : k % StepSize = 0}

\* C1: every color plot emits has r, g, b equal to max(0, carried channel -
\* modifier channel), each within 0..255, and alpha 255.
C1_EmittedChannels ==
    last.some =>
        /\ last.color.r = Max(0, last.before.r - last.modifier.r)
        /\ last.color.g = Max(0, last.before.g - last.modifier.g)
        /\ last.color.b = Max(0, last.before.b - last.modifier.b)
        /\ {last.color.r, last.color.g, last.color.b} \subseteq 0 .. 255
        /\ last.color.a = 255

\* a channel was clamped at 0 and the carried alpha was not 255
C1_Witness ==
    /\ last.some
    /\ last.before.r < last.modifier.r
    /\ last.color.r = 0
    /\ last.before.a # 255

\* the emitted samples of the ray are exactly those before the first one
\* outside [0,width] x [0,height]
ExactExit ==
    /\ pc = "trace" =>
         /\ emitted = Marks(magnitude)
         /\ \A m \in emitted : InWindow(SampleAt(m))
    /\ pc = "returned" =>
         /\ emitted = Marks(magnitude - StepSize)
         /\ \A m \in emitted : InWindow(SampleAt(m))
         /\ ~InWindow(SampleAt(magnitude - StepSize))

\* C2 as stated: with no walls every emitted color equals the light's base
\* color in all four channels, and the ray ends exactly at the first sample
\* outside [0,width] x [0,height].
C2_Original ==
    world.walls = << >> =>
        /\ last.some => last.color = world.light.color
        /\ ExactExit

\* C2 amended: with no walls every emitted color has the r, g, b of the
\* light's base color and alpha 255, and the ray ends exactly at the first
\* sample outside [0,width] x [0,height].
C2_NoWalls ==
    world.walls = << >> =>
        /\ last.some => SameRgb(last.color, world.light.color) /\ last.color.a = 255
        /\ ExactExit

\* a ray through an empty scene, from a light whose alpha is not 255, has
\* plotted samples and left the window
C2_Witness ==
    /\ world.walls = << >>
    /\ world.light.color.a # 255
    /\ pc = "returned"
    /\ Cardinality(emitted) >= 2

\* C3: every write to the pixel sink targets a pixel of the drawable surface,
\* 0..width-1 by 0..height-1.
C3_WritesInsideSurface ==
    last.some => PixelIndex(last.pixel) \in Surface

\* C4: along one ray each color is computed from the color emitted at the
\* previous step, so r, g, b never increase from step to step and never go
\* below 0.
C4_Monotone ==
    [][(pc = "trace" /\ last.some /\ last'.some) =>
          /\ last'.before = last.color
          /\ last'.color.r <= last.color.r /\ last'.color.r >= 0
          /\ last'.color.g <= last.color.g /\ last'.color.g >= 0
          /\ last'.color.b <= last.color.b /\ last'.color.b >= 0]_vars

\* past a wall: this sample has no modifier, and the channel a wall reduced
\* earlier on the ray is still reduced
C4_Witness ==
    /\ last.some
    /\ last.modifier = BLACK
    /\ applied # {}
    /\ last.color.r < world.light.color.r

\* C5: light (0,0), white, one wall (5,-5)-(5,5) of color (100,0,0,255),
\* direction (1,0): samples with x <= 4 are white, samples with x >= 5 are
\* (155,255,255,255).
C5_Scenario ==
    (/\ world.walls = Walls1
     /\ world.light.position = Vec(0, 0)
     /\ world.light.color = WHITE
     /\ pc \in {"trace", "returned"}
     /\ angle = 0
     /\ normal = Vec(Scale, 0)
     /\ last.some) =>
        /\ last.pixel.x <= 4 * Scale => last.color = WHITE
        /\ last.pixel.x >= 5 * Scale => last.color = Rgba(155, 255, 255, 255)

\* twice the signed area of the triangle p, q, r
Orient(p, q, r) == (q.x - p.x) * (r.y - p.y) - (q.y - p.y) * (r.x - p.x)

\* the segments p-q and a-b cross in one interior point
Crosses(p, q, a, b) ==
    /\ Sign(Orient(p, q, a)) * Sign(Orient(p, q, b)) < 0
    /\ Sign(Orient(a, b, p)) * Sign(Orient(a, b, q)) < 0

\* wall i lies across the path of the current ray inside the window
PathCrosses(i) ==
    LET far == CHOOSE m \in emitted : \A k \in emitted : k <= m
    IN  Crosses(SampleAt(0), SampleAt(far),
                Vec(world.walls[i].start.x * Scale, world.walls[i].start.y * Scale),
                Vec(world.walls[i].end.x * Scale, world.walls[i].end.y * Scale))

\* C6: no wall is tunnelled through: a ray whose path crosses a wall inside
\* the window has a sample within the wall's threshold, and the wall's color
\* is applied to the ray.
C6_NoTunnelling ==
    (pc = "returned" /\ emitted # {}) =>
        \A i \in 1 .. Len(world.walls) : PathCrosses(i) => i \in applied

\* C7: every ray terminates; it returns only on a sample outside
\* [0,width] x [0,height]; a ray whose first sample is outside emits nothing.
C7_Terminates ==
    /\ (pc = "trace") ~> (pc = "returned")
    /\ [](pc = "returned" =>
            /\ ~last.some
            /\ \E m \in Marks(magnitude + 1) : last.pixel = SampleAt(m)
            /\ ~InWindow(last.pixel))
    /\ [](pc = "returned" /\ ~InWindow(SampleAt(0)) => emitted = {})

\* a ray from a light inside the window returned after several samples
C7_Witness ==
    /\ pc = "returned"
    /\ InWindow(SampleAt(0))
    /\ Cardinality(emitted) >= 3

Min(a, b) == IF a < b THEN a ELSE b

\* squared distance of point p to an axis-parallel wall: the nearest point of
\* the wall has each coordinate of p moved into the wall's range
AxisDist2(wall, p) ==
    LET lox == Min(wall.start.x, wall.end.x) * Scale
        hix == Max(wall.start.x, wall.end.x) * Scale
        loy == Min(wall.start.y, wall.end.y) * Scale
        hiy == Max(wall.start.y, wall.end.y) * Scale
    IN  Sq(p.x - Max(lox, Min(p.x, hix))) + Sq(p.y - Max(loy, Min(p.y, hiy)))

AxisParallel(wall) == wall.start.x = wall.end.x \/ wall.start.y = wall.end.y

\* the walls at distance < 1.0 of point p
Matching(p) ==
    {i \in 1 .. Len(world.walls) : AxisDist2(world.walls[i], p) < Sq(Scale)}

\* C8: the modifier of a sample is the color of the first wall, in collection
\* order, within the threshold, whichever wall is nearer; black, which leaves
\* r, g, b unchanged, when there is none.
C8_FirstMatch ==
    (last.some /\ \A i \in 1 .. Len(world.walls) : AxisParallel(world.walls[i])) =>
        IF Matching(last.pixel) = {}
        THEN /\ SameRgb(last.modifier, Rgba(0, 0, 0, 0))
             /\ SameRgb(last.color, last.before)
        ELSE \E i \in Matching(last.pixel) :
                /\ \A j \in Matching(last.pixel) : i <= j
                /\ last.modifier = world.walls[i].color

\* both walls of the two-wall scene match a sample that is nearer to the
\* second wall (y = 2) than to the first (x = 4)
C8_Witness ==
    /\ world.walls = Walls2
    /\ last.some
    /\ Matching(last.pixel) = {1, 2}
    /\ Abs(last.pixel.y - 2 * Scale) < Abs(last.pixel.x - 4 * Scale)

\* C9: a sweep calls the tracer once per angle, in the order 0, 1, ..., 359,
\* each ray ending before the next starts; every ray starts at magnitude 0
\* with the light's base color; a pixel holds the color of its latest write.
C9_Sweep ==
    /\ [](/\ pc \in {"trace", "returned"} => calls = angle + 1 /\ normal = RayNormal(angle)
          /\ pc = "sweep" => calls = angle
          /\ (pc = "present" /\ swept) => calls = NumAngles /\ angle = NumAngles
          /\ (pc = "trace" /\ emitted = {}) =>
                magnitude = 0 /\ color = world.light.color
          /\ (last.some /\ PixelIndex(last.pixel) \in Surface) =>
                sink[PixelIndex(last.pixel)] = last.color)
    /\ [][/\ angle' # angle =>
                \/ pc = "returned" /\ angle' = angle + 1
                \/ pc = "frame" /\ angle' = 0
          /\ calls' # calls =>
                \/ pc = "sweep" /\ calls' = calls + 1 /\ pc' = "trace"
                \/ pc = "frame" /\ calls' = 0]_vars

\* a sweep from a light inside the window has run through all angles, the last
\* ray overwriting the pixel of the light that every ray writes
C9_Witness ==
    /\ pc = "present"
    /\ swept
    /\ calls = NumAngles
    /\ world.light.position = Vec(0, 0)
    /\ world.walls = Walls2
    /\ sink[<<0, 0>>] = modify(world.light.color, BLACK)

\* C10: a frame sweeps iff the light position differs from the one recorded
\* at the end of the previous frame; so after every frame the latest sweep was
\* traced from the light's current position, and the first frame sweeps.
C10_NeverStale ==
    /\ pc = "present" => (swept <=> world.light.position # last_light_position)
    /\ (pc = "frame" /\ frames >= 1) => rendered_from = <<world.light.position>>
    /\ (pc = "present" /\ frames = 0) => swept

====
